---------------------------- MODULE Spec2Model ----------------------------
(***************************************************************************)
(* Model of the statistics bot: storage.py (snapshot store, number         *)
(* normaliser, diff engine), scraper.py (extraction, report renderer) and  *)
(* main.py (run orchestration).                                            *)
(*                                                                         *)
(* Text is modelled as a sequence of one-character strings, so that        *)
(* parsing and formatting are computed character by character as the code  *)
(* does.  Numbers are fixed-point integers counted in thousandths: the     *)
(* value texts of the model carry at most three fractional digits.         *)
(***************************************************************************)
EXTENDS Integers, Sequences, FiniteSets, TLC

VARIABLES
    \* calculate_diff applied to a pair of value texts
    currentValue, previousValue, delta,
    \* get_diffs and format_stats_message applied to a pair of snapshots
    statsData, previousStats, currentStats, deltaSet, report,
    \* parse_statistics and fetch_statistics applied to a page
    html, fetchInput, parsed, fetched,
    \* the runs of send_stats_to_telegram and the snapshot file they share
    runs, storeFile, clock, started, lastSave,
    \* login on a browser: what the browser does, and what login did
    loginEnv, loginOut,
    \* generate_charts applied to a snapshot
    chartData, charts

diffVars == <<currentValue, previousValue, delta>>
getDiffsVars == <<statsData, previousStats, currentStats, deltaSet, report>>

parseVars == <<html, fetchInput, parsed, fetched>>

runVars == <<runs, storeFile, clock, started, lastSave>>

loginVars == <<loginEnv, loginOut>>

chartVars == <<chartData, charts>>

vars == <<diffVars, getDiffsVars, parseVars, runVars, loginVars, chartVars>>

(***************************************************************************)
(* Python values                                                           *)
(***************************************************************************)
\* float values: a finite number v (in thousandths), nan, or +/- infinity.
Fin(v) == [k |-> "fin", v |-> v]
NaN == [k |-> "nan", v |-> 0]
Inf(s) == [k |-> "inf", v |-> s]
\* parse_number's None (ValueError / AttributeError caught).
NotANumber == [k |-> "none", v |-> 0]

Digits == {"0", "1", "2", "3", "4", "5", "6", "7", "8", "9"}

DigitVal(c) ==
    CASE c = "0" -> 0 [] c = "1" -> 1 [] c = "2" -> 2 [] c = "3" -> 3
      [] c = "4" -> 4 [] c = "5" -> 5 [] c = "6" -> 6 [] c = "7" -> 7
      [] c = "8" -> 8 [] c = "9" -> 9

DigitChar(d) ==
    CASE d = 0 -> "0" [] d = 1 -> "1" [] d = 2 -> "2" [] d = 3 -> "3"
      [] d = 4 -> "4" [] d = 5 -> "5" [] d = 6 -> "6" [] d = 7 -> "7"
      [] d = 8 -> "8" [] d = 9 -> "9"

\* str.replace(old, new) for a one-character old; new is a text (possibly empty).
RECURSIVE Replace(_, _, _)
Replace(s, old, new) ==
    IF s = <<>> THEN <<>>
    ELSE (IF Head(s) = old THEN new ELSE <<Head(s)>>) \o Replace(Tail(s), old, new)

\* The integer written by a sequence of digits.
RECURSIVE DigitsVal(_)
DigitsVal(s) ==
    IF s = <<>> THEN 0
    ELSE 10 * DigitsVal(SubSeq(s, 1, Len(s) - 1)) + DigitVal(s[Len(s)])

AllDigits(s) == \A i \in 1..Len(s) : s[i] \in Digits

\* A fraction's digits as thousandths: the first three digits, right-padded.
FracVal(s) ==
    LET d(i) == IF i <= Len(s) THEN DigitVal(s[i]) ELSE 0
    IN  100 * d(1) + 10 * d(2) + d(3)

\* Letters are compared case-insensitively by float().
Lower(c) ==
    CASE c = "N" -> "n" [] c = "A" -> "a" [] c = "I" -> "i" [] c = "F" -> "f"
      [] OTHER -> c

LowerText(s) == [i \in 1..Len(s) |-> Lower(s[i])]

\* float(text) on an unsigned literal: digits with at most one '.', and at
\* least one digit; or nan / inf / infinity.
FloatUnsigned(s) ==
    LET dots == {i \in 1..Len(s) : s[i] = "."}
        low  == LowerText(s)
    IN  IF low = <<"n", "a", "n">> THEN NaN
        ELSE IF low = <<"i", "n", "f">> THEN Inf(1)
        ELSE IF low = <<"i", "n", "f", "i", "n", "i", "t", "y">> THEN Inf(1)
        ELSE IF dots = {} THEN
            IF s # <<>> /\ AllDigits(s) THEN Fin(1000 * DigitsVal(s))
            ELSE NotANumber
        ELSE IF Cardinality(dots) = 1 THEN
            LET p  == CHOOSE i \in dots : TRUE
                ip == SubSeq(s, 1, p - 1)
                fp == SubSeq(s, p + 1, Len(s))
            IN  IF AllDigits(ip) /\ AllDigits(fp) /\ Len(ip) + Len(fp) > 0
                THEN Fin(1000 * DigitsVal(ip) + FracVal(fp))
                ELSE NotANumber
        ELSE NotANumber

Negate(x) ==
    IF x.k = "fin" THEN Fin(0 - x.v)
    ELSE IF x.k = "inf" THEN Inf(0 - x.v)
    ELSE x

\* float(text): an optional sign, then the unsigned literal.
Float(s) ==
    IF s # <<>> /\ Head(s) = "-" THEN Negate(FloatUnsigned(Tail(s)))
    ELSE IF s # <<>> /\ Head(s) = "+" THEN FloatUnsigned(Tail(s))
    ELSE FloatUnsigned(s)

\* storage.parse_number: comma to dot, spaces and no-break spaces removed,
\* then float(); None when float() rejects the text.
parse_number(value) ==
    LET cleaned == Replace(Replace(Replace(value, ",", <<".">>), " ", <<>>),
                           "nbsp", <<>>)
    IN  Float(cleaned)

(***************************************************************************)
(* storage.calculate_diff                                                  *)
(***************************************************************************)
\* What a call produced: a text, None, or an exception that escapes it.
RetStr(s) == [k |-> "str", s |-> s, exc |-> "-"]
RetNone == [k |-> "none", s |-> <<>>, exc |-> "-"]
Raises(e) == [k |-> "raise", s |-> <<>>, exc |-> e]

\* current_num - previous_num in float arithmetic.
FloatSub(a, b) ==
    IF a.k = "nan" \/ b.k = "nan" THEN NaN
    ELSE IF a.k = "inf" /\ b.k = "inf" THEN
        (IF a.v = b.v THEN NaN ELSE Inf(a.v))
    ELSE IF a.k = "inf" THEN Inf(a.v)
    ELSE IF b.k = "inf" THEN Inf(0 - b.v)
    ELSE Fin(a.v - b.v)

Abs(n) == IF n < 0 THEN 0 - n ELSE n

\* str(n) for a natural number n.
RECURSIVE NatText(_)
NatText(n) ==
    IF n < 10 THEN <<DigitChar(n)>>
    ELSE NatText(n \div 10) \o <<DigitChar(n % 10)>>

\* f"{int(diff)}" for a whole diff (in thousandths).
IntText(d) ==
    (IF d < 0 THEN <<"-">> ELSE <<>>) \o NatText(Abs(d) \div 1000)

\* |d| rounded to hundredths, the way the 'f' format rounds: to nearest, a
\* tie (exactly representable in binary) to the even neighbour.
RoundHundredths(a) ==
    LET q == a \div 10
        r == a % 10
    IN  IF r > 5 \/ (r = 5 /\ q % 2 = 1) THEN q + 1 ELSE q

\* Fixed2Text with the format changed to one decimal, f"{diff:.1f}".
Fixed1Text(d) ==
    LET t == RoundHundredths(Abs(d) \div 10)
    IN  (IF d < 0 THEN <<"-">> ELSE <<>>)
        \o NatText(t \div 10) \o <<".", DigitChar(t % 10)>>

\* f"{diff:.2f}" for a finite diff (in thousandths): sign, integer part, '.',
\* exactly two digits.
Fixed2Text(d) ==
    LET h == RoundHundredths(Abs(d))
    IN  (IF d < 0 THEN <<"-">> ELSE <<>>)
        \o NatText(h \div 100)
        \o <<".", DigitChar((h \div 10) % 10), DigitChar(h % 10)>>

\* diff == int(diff)
IsWhole(d) == d % 1000 = 0

\* int(diff) raises for a diff that is not finite.
IntRaises(x) ==
    IF x.k = "nan" THEN "ValueError"
    ELSE IF x.k = "inf" THEN "OverflowError"
    ELSE "-"

\* diff == 0 and diff > 0 on floats: nan compares false with everything.
FloatIsZero(x) == x.k = "fin" /\ x.v = 0
FloatIsPositive(x) == (x.k = "fin" /\ x.v > 0) \/ (x.k = "inf" /\ x.v > 0)

calculate_diff(current_value, previous_value) ==
    LET current_num  == parse_number(current_value)
        previous_num == parse_number(previous_value)
        diff == FloatSub(current_num, previous_num)
    IN  IF current_num.k = "none" \/ previous_num.k = "none" THEN RetNone
        ELSE IF FloatIsZero(diff) THEN RetNone
        ELSE IF FloatIsPositive(diff) THEN
            IF IntRaises(diff) # "-" THEN Raises(IntRaises(diff))
            ELSE IF IsWhole(diff.v) THEN RetStr(<<"+">> \o IntText(diff.v))
            ELSE RetStr(Replace(<<"+">> \o Fixed2Text(diff.v), ".", <<",">>))
        ELSE
            IF IntRaises(diff) # "-" THEN Raises(IntRaises(diff))
            ELSE IF IsWhole(diff.v) THEN RetStr(IntText(diff.v))
            ELSE RetStr(Replace(Fixed2Text(diff.v), ".", <<",">>))

(***************************************************************************)
(* Dictionaries are functions: a key is present iff it is in the DOMAIN.   *)
(***************************************************************************)
EmptyDict == <<>>

\* d.get(key, {}) for a dict of dicts.
Get(d, key) == IF key \in DOMAIN d THEN d[key] ELSE EmptyDict

\* What json.load gave load_previous_stats' caller: None, or a dict.
JsonNone == [k |-> "none", d |-> EmptyDict]
JsonDict(d) == [k |-> "dict", d |-> d]

\* Python truthiness of an Optional[dict]: None and {} are falsy.
Truthy(x) == x.k = "dict" /\ DOMAIN x.d # {}

(***************************************************************************)
(* storage.get_diffs                                                       *)
(***************************************************************************)
\* The keys of one metrics mapping that the loop visits and finds in the
\* previous mapping.
CommonKeys(current_metrics, previous_metrics) ==
    DOMAIN current_metrics \cap DOMAIN previous_metrics

\* One "for key, current_value in ...items()" loop of get_diffs: an entry for
\* every common key whose calculate_diff is a non-empty text.
MetricDiffs(current_metrics, previous_metrics) ==
    LET keys == {key \in CommonKeys(current_metrics, previous_metrics) :
                    LET diff == calculate_diff(current_metrics[key],
                                               previous_metrics[key])
                    IN  diff.k = "str" /\ diff.s # <<>>}
    IN  [key \in keys |->
            calculate_diff(current_metrics[key], previous_metrics[key]).s]

\* The exceptions calculate_diff raises inside one such loop.
MetricRaises(current_metrics, previous_metrics) ==
    {calculate_diff(current_metrics[key], previous_metrics[key]).exc :
        key \in {kk \in CommonKeys(current_metrics, previous_metrics) :
                    calculate_diff(current_metrics[kk],
                                   previous_metrics[kk]).k = "raise"}}

EmptyDiffs ==
    [p2p_bot |-> EmptyDict, posting_bot |-> EmptyDict, subsections |-> EmptyDict]

DiffsOk(diffs) == [k |-> "ok", diffs |-> diffs, exc |-> "-"]
DiffsRaise(e) == [k |-> "raise", diffs |-> EmptyDiffs, exc |-> e]

\* Lines 158-195 of get_diffs: the comparison with a previous record prev.
\* The exception of a calculate_diff call is not caught.  (Which of several
\* raising labels is reached first depends on the dict order.)
CompareStats(current_stats, prev) ==
    LET both(g) == g \in DOMAIN current_stats /\ g \in DOMAIN prev
        cur_p2p  == IF both("p2p_bot")
                    THEN Get(current_stats["p2p_bot"], "metrics") ELSE EmptyDict
        prev_p2p == IF both("p2p_bot")
                    THEN Get(prev["p2p_bot"], "metrics") ELSE EmptyDict
        cur_post  == IF both("posting_bot")
                     THEN Get(current_stats["posting_bot"], "metrics")
                     ELSE EmptyDict
        prev_post == IF both("posting_bot")
                     THEN Get(prev["posting_bot"], "metrics") ELSE EmptyDict
        cur_sub  == IF both("posting_bot")
                    THEN Get(current_stats["posting_bot"], "subsections")
                    ELSE EmptyDict
        prev_sub == IF both("posting_bot")
                    THEN Get(prev["posting_bot"], "subsections") ELSE EmptyDict
        sections == DOMAIN cur_sub \cap DOMAIN prev_sub
        raised == MetricRaises(cur_p2p, prev_p2p)
                  \cup MetricRaises(cur_post, prev_post)
                  \cup UNION {MetricRaises(cur_sub[s], prev_sub[s]) :
                                 s \in sections}
    IN  IF raised # {} THEN DiffsRaise(CHOOSE e \in raised : TRUE)
        ELSE DiffsOk(
            [p2p_bot     |-> MetricDiffs(cur_p2p, prev_p2p),
             posting_bot |-> MetricDiffs(cur_post, prev_post),
             subsections |-> [s \in sections |->
                                 MetricDiffs(cur_sub[s], prev_sub[s])]])

\* A record in which every metric of current_stats reads "0".
ZeroBaseline(current_stats) ==
    LET zeros(mm) == [key \in DOMAIN mm |-> <<"0">>]
    IN  [g \in DOMAIN current_stats |->
            IF g = "p2p_bot"
            THEN [current_stats[g] EXCEPT !.metrics = zeros(@)]
            ELSE [current_stats[g] EXCEPT
                     !.metrics = zeros(@),
                     !.subsections = [s \in DOMAIN @ |-> zeros(@[s])]]]

\* get_diffs without its "if not previous_stats" return: a missing history
\* is compared as a baseline of zeros.
get_diffs_zero_baseline(current_stats, previous_stats) ==
    CompareStats(current_stats,
                 IF Truthy(previous_stats) THEN previous_stats.d
                 ELSE ZeroBaseline(current_stats))

\* storage.get_diffs(current_stats, previous_stats)
get_diffs(current_stats, previous_stats) ==
    IF ~Truthy(previous_stats) THEN DiffsOk(EmptyDiffs)
    ELSE CompareStats(current_stats, previous_stats.d)

(***************************************************************************)
(* scraper.StatsBlock, scraper.StatsData                                   *)
(***************************************************************************)
\* Optional[str] for StatsData.error: None, or the text of an error.
NoError == "<None>"

\* "if stats_data.error": None and the empty text are falsy.
HasError(stats_data) == stats_data.error # NoError /\ stats_data.error # ""

StatsBlock(name) ==
    [k |-> "block", name |-> name, metrics |-> EmptyDict,
     subsections |-> EmptyDict]

\* Optional[StatsBlock] = None
NoBlock ==
    [k |-> "none", name |-> "", metrics |-> EmptyDict, subsections |-> EmptyDict]

\* StatsData(): every field at its default.
StatsData ==
    [p2p_bot |-> NoBlock, posting_bot |-> NoBlock, raw_html |-> "",
     error |-> NoError]

\* d[key] = value
Put(d, key, value) == (key :> value) @@ d

(***************************************************************************)
(* The rendered page, as parse_statistics' BeautifulSoup queries see it.   *)
(* A page is the sequence of its top-level cards (a nested card has a      *)
(* parent card and is skipped by the loop).  A card:                       *)
(*   has_header, header  the card-header div and the words of its text     *)
(*   has_body            the card-body div                                 *)
(*   info_items          the body's "info-item" divs, in document order    *)
(*   flex_items          the body's "d-flex" divs outside any nested div   *)
(*   subdivs             the body's nested divs that carry class names:    *)
(*                       cls (the class attribute's tokens), their own     *)
(*                       d-flex divs and their "text-center" stat boxes    *)
(* An item or box is [key, value, ok]: ok iff both the label element and   *)
(* the value element are present; key and value are the stripped texts     *)
(* (the key after rstrip(':')).                                            *)
(***************************************************************************)
\* "'border-primary' in x" / "'border-info' in x" on one class token.
ContainsBorderPrimary(token) ==
    token \in {"border-primary", "border-primary-subtle"}
ContainsBorderInfo(token) ==
    token \in {"border-info", "border-info-subtle"}

\* class_=lambda x: x and 'border-primary' in x: true of a div when the
\* function accepts one of its class tokens.
IsPostsCard(div) == \E i \in 1..Len(div.cls) : ContainsBorderPrimary(div.cls[i])
IsStoriesCard(div) == \E i \in 1..Len(div.cls) : ContainsBorderInfo(div.cls[i])

\* find_parent('div', class_='card border-primary'): a class_ string with a
\* space matches the class attribute's exact value.
HasExactClass(div, tokens) == div.cls = tokens

\* for item in items: if label and badge: metrics[key] = value
RECURSIVE AddPairs(_, _)
AddPairs(metrics, items) ==
    IF items = <<>> THEN metrics
    ELSE AddPairs(IF Head(items).ok
                  THEN Put(metrics, Head(items).key, Head(items).value)
                  ELSE metrics,
                  Tail(items))

\* The d-flex divs of nested divs, in order.
RECURSIVE SubFlex(_)
SubFlex(subdivs) ==
    IF subdivs = <<>> THEN <<>>
    ELSE Head(subdivs).flex_items \o SubFlex(Tail(subdivs))

\* card_body.find_all('div', class_='d-flex')
AllFlex(card) == card.flex_items \o SubFlex(card.subdivs)

\* The d-flex divs the Posting loop keeps: not inside a div whose class is
\* exactly "card border-primary" or exactly "card border-info".
KeptSubdivs(subdivs) ==
    SelectSeq(subdivs,
              LAMBDA div : ~HasExactClass(div, <<"card", "border-primary">>)
                           /\ ~HasExactClass(div, <<"card", "border-info">>))

PostingFlex(card) == card.flex_items \o SubFlex(KeptSubdivs(card.subdivs))

\* card_body.find('div', class_=...): the first match, or none.
FirstMatch(subdivs, Test(_)) ==
    LET hits == SelectSeq(subdivs, Test)
    IN  IF hits = <<>> THEN <<>> ELSE <<Head(hits)>>

\* Lines 206-229: a P2P card.
ParseP2PCard(card, p2p_block) ==
    IF ~card.has_body THEN p2p_block
    ELSE
    LET method1 == AddPairs(p2p_block.metrics, card.info_items)
    IN  IF DOMAIN method1 # {} THEN [p2p_block EXCEPT !.metrics = method1]
        ELSE [p2p_block EXCEPT !.metrics = AddPairs(method1, AllFlex(card))]

\* Lines 250-266 and 268-281: one nested statistics card.
ParseSubCard(found, section, subsections) ==
    IF found = <<>> THEN subsections
    ELSE Put(subsections, section, AddPairs(EmptyDict, found[1].boxes))

\* Lines 232-281: a Posting card.
ParsePostingCard(card, posting_block) ==
    IF ~card.has_body THEN posting_block
    ELSE
    LET metrics == AddPairs(posting_block.metrics, PostingFlex(card))
        posts_card   == FirstMatch(card.subdivs, IsPostsCard)
        stories_card == FirstMatch(card.subdivs, IsStoriesCard)
        with_posts == ParseSubCard(posts_card, "Posty",
                                   posting_block.subsections)
    IN  [posting_block EXCEPT
            !.metrics = metrics,
            !.subsections = ParseSubCard(stories_card, "Storis", with_posts)]

\* Lines 192-281: the loop over the top-level cards; blocks is
\* [p2p, posting], the two StatsBlock locals.
RECURSIVE ParseCards(_, _)
ParseCards(cards, blocks) ==
    IF cards = <<>> THEN blocks
    ELSE
    LET card == Head(cards)
    IN  ParseCards(Tail(cards),
            IF ~card.has_header THEN blocks
            ELSE IF "P2P" \in card.header
                 THEN [blocks EXCEPT !.p2p = ParseP2PCard(card, blocks.p2p)]
            ELSE IF "Posting" \in card.header
                 THEN [blocks EXCEPT
                          !.posting = ParsePostingCard(card, blocks.posting)]
            ELSE blocks)

\* Lines 284-292: "if p2p_block.metrics" / "if posting_block.metrics or
\* posting_block.subsections": a dict is truthy iff it has a key.
AssignBlocks(stats_data, blocks) ==
    [stats_data EXCEPT
        !.p2p_bot = IF DOMAIN blocks.p2p.metrics # {}
                    THEN blocks.p2p ELSE NoBlock,
        !.posting_bot = IF DOMAIN blocks.posting.metrics # {}
                           \/ DOMAIN blocks.posting.subsections # {}
                        THEN blocks.posting ELSE NoBlock]

\* The steps of parse_statistics' try block at which an exception can be
\* raised: the wait for <main>, the read of page_source, BeautifulSoup(),
\* the loop over the cards.
ParseSteps == {"wait", "page_source", "soup", "cards"}

\* The message of the exception a step usually raises (selenium's str
\* starts "Message: ").
ExcText(step) ==
    CASE step = "wait" -> "Message: timeout"
      [] step = "page_source" -> "Message: no such window"
      [] step = "soup" -> "Couldn't find a tree builder"
      [] step = "cards" -> "parse failure"
      [] step = "create_driver" -> "Message: session not created"
      [] step = "set_page_load_timeout" -> "Message: chrome not reachable"

\* An exception raised at a step, with str(e): the usual message, or the
\* empty string of an exception built without arguments (MemoryError(), a
\* failed bare assert).
NoFailure == [step |-> "none", str |-> ""]
Failures(steps) ==
    UNION {{[step |-> s, str |-> ExcText(s)], [step |-> s, str |-> ""]}
              : s \in steps}
ParseFailures == Failures(ParseSteps)
\* create_driver raises when webdriver.Chrome() fails in its third method
\* (no browser was started), or when set_page_load_timeout fails on the
\* driver just created.
CreateFailures == Failures({"create_driver", "set_page_load_timeout"})

\* parse_statistics with the blocks attached to stats_data before the try
\* block's later steps run: a failure leaves them attached.
parse_statistics_eager(page, fail) ==
    LET blocks == ParseCards(page, [p2p |-> StatsBlock("p2pDox"),
                                    posting |-> StatsBlock("Doxposting")])
        attached == AssignBlocks([StatsData EXCEPT !.raw_html = "page_source"],
                                 blocks)
    IN  IF fail = NoFailure THEN attached
        ELSE [attached EXCEPT !.error = fail.str]

\* scraper.parse_statistics on a page; fail is the exception raised in the
\* try block, or NoFailure.
parse_statistics(page, fail) ==
    LET stats_data == StatsData
        loaded == [stats_data EXCEPT
                      !.raw_html = IF fail.step \in {"wait", "page_source"}
                                   THEN "" ELSE "page_source"]
        blocks == ParseCards(page, [p2p |-> StatsBlock("p2pDox"),
                                    posting |-> StatsBlock("Doxposting")])
    IN  IF fail = NoFailure THEN AssignBlocks(loaded, blocks)
        ELSE [loaded EXCEPT !.error = fail.str]

(***************************************************************************)
(* scraper.login                                                           *)
(* The browser is given by what each of its operations does (env):         *)
(*   get          "ok" or "raise"          driver.get(STATS_URL)           *)
(*   url1, url2   the location read by driver.current_url after the        *)
(*                navigation and after the settle delay, or a raise        *)
(*   find_login   "found", "timeout" (TimeoutException of the bounded      *)
(*                wait) or "raise" (another exception)                     *)
(*   find_password, find_submit   "found", "no_such"                       *)
(*                (NoSuchElementException) or "raise"                      *)
(*   typed        how many of the four typing operations succeed           *)
(*   click, submit   "ok" or "raise"                                       *)
(* login gives the value it returns and the operations it issued on the    *)
(* driver, in order.                                                       *)
(***************************************************************************)
\* str.lower() on the letters of the model's locations.
StrLower(c) ==
    CASE c = "L" -> "l" [] c = "O" -> "o" [] c = "G" -> "g" [] c = "I" -> "i"
      [] c = "N" -> "n" [] c = "S" -> "s"
      [] OTHER -> c

StrLowerText(s) == [i \in 1..Len(s) |-> StrLower(s[i])]

\* sub in s
RECURSIVE Contains(_, _)
Contains(s, sub) ==
    IF Len(s) < Len(sub) THEN FALSE
    ELSE IF SubSeq(s, 1, Len(sub)) = sub THEN TRUE
    ELSE Contains(Tail(s), sub)

LoginMarker == <<"l", "o", "g", "i", "n">>

\* 'login' in current_url, without the lower().
HasLoginMarkerExact(current_url) == Contains(current_url, LoginMarker)

\* 'login' in current_url.lower()
HasLoginMarker(current_url) == Contains(StrLowerText(current_url), LoginMarker)

Location(text) == [k |-> "url", text |-> text]
NoLocation == [k |-> "raise", text |-> <<>>]

LoginReturns(ret, ops) == [k |-> "return", ret |-> ret, ops |-> ops]
LoginPending == [k |-> "pending", ret |-> FALSE, ops |-> <<>>]

\* Lines 124-128: clear and send_keys on the two fields.
TypingOps ==
    <<"clear:login", "send_keys:login", "clear:password", "send_keys:password">>

\* Lines 141-152: the settle delay, then the location decides.
VerifyLogin(env, ops) ==
    IF env.url2.k = "raise" THEN LoginReturns(FALSE, ops \o <<"current_url">>)
    ELSE LoginReturns(~HasLoginMarker(env.url2.text), ops \o <<"current_url">>)

\* Lines 131-138: click the submit control; without one, submit the form
\* through the password field.
SubmitLogin(env, ops) ==
    CASE env.find_submit = "found" ->
            IF env.click = "ok"
            THEN VerifyLogin(env, ops \o <<"find:submit", "click">>)
            ELSE LoginReturns(FALSE, ops \o <<"find:submit", "click">>)
      [] env.find_submit = "no_such" ->
            IF env.submit = "ok"
            THEN VerifyLogin(env, ops \o <<"find:submit", "submit">>)
            ELSE LoginReturns(FALSE, ops \o <<"find:submit", "submit">>)
      [] OTHER -> LoginReturns(FALSE, ops \o <<"find:submit">>)

\* Lines 124-128; the operation after the last that succeeds raises.
TypeCredentials(env, ops) ==
    IF env.typed = Len(TypingOps)
    THEN SubmitLogin(env, ops \o TypingOps)
    ELSE LoginReturns(FALSE, ops \o SubSeq(TypingOps, 1, env.typed + 1))

\* The fields located one after the other, the login typed in between.
FindFieldsTypingEarly(env, ops) ==
    IF env.find_login # "found"
    THEN LoginReturns(FALSE, ops \o <<"find:login">>)
    ELSE IF env.typed < 2
    THEN LoginReturns(FALSE, ops \o <<"find:login">>
                                 \o SubSeq(TypingOps, 1, env.typed + 1))
    ELSE IF env.find_password # "found"
    THEN LoginReturns(FALSE, ops \o <<"find:login">> \o SubSeq(TypingOps, 1, 2)
                                 \o <<"find:password">>)
    ELSE IF env.typed < Len(TypingOps)
    THEN LoginReturns(FALSE, ops \o <<"find:login">> \o SubSeq(TypingOps, 1, 2)
                                 \o <<"find:password">>
                                 \o SubSeq(TypingOps, 3, env.typed + 1))
    ELSE SubmitLogin(env, ops \o <<"find:login">> \o SubSeq(TypingOps, 1, 2)
                              \o <<"find:password">> \o SubSeq(TypingOps, 3, 4))

\* Lines 105-121: the login input within the bounded wait, then the
\* password input.
FindFields(env, ops) ==
    IF env.find_login # "found"
    THEN LoginReturns(FALSE, ops \o <<"find:login">>)
    ELSE IF env.find_password # "found"
    THEN LoginReturns(FALSE, ops \o <<"find:login", "find:password">>)
    ELSE TypeCredentials(env, ops \o <<"find:login", "find:password">>)

\* login(driver): every exception ends in the except clause of line 154.
login(env) ==
    IF env.get = "raise" THEN LoginReturns(FALSE, <<"get">>)
    ELSE IF env.url1.k = "raise"
    THEN LoginReturns(FALSE, <<"get", "current_url">>)
    ELSE IF ~HasLoginMarker(env.url1.text)
    THEN LoginReturns(TRUE, <<"get", "current_url">>)
    ELSE FindFields(env, <<"get", "current_url">>)

\* A browser on which nothing fails and no login is needed.
QuietBrowser ==
    [get |-> "ok", url1 |-> Location(<<>>), find_login |-> "found",
     find_password |-> "found", typed |-> Len(TypingOps),
     find_submit |-> "found", click |-> "ok", submit |-> "ok",
     url2 |-> Location(<<>>)]

IdleLogin ==
    /\ loginEnv = QuietBrowser
    /\ loginOut = LoginPending

(***************************************************************************)
(* scraper.fetch_statistics                                                *)
(***************************************************************************)
\* What a call of fetch_statistics or parse_statistics produced: the
\* StatsData it returned; ops is the sequence of the calls made on the
\* browser driver, from its construction on, and quits counts the
\* driver.quit() calls among them.
Returned(stats_data, quits) ==
    [k |-> "return", stats_data |-> stats_data, exc |-> "-", quits |-> quits,
     ops |-> <<>>]
FetchPending ==
    [k |-> "pending", stats_data |-> StatsData, exc |-> "-", quits |-> 0,
     ops |-> <<>>]

\* create_driver (with no CHROMEDRIVER_PATH: methods 2 and 3): whether it
\* returned the driver, the exception it raised otherwise, and the calls
\* made on the driver.  "Chrome" is webdriver.Chrome(...) returning a
\* driver: a browser was started.
create_driver(fail) ==
    CASE fail.step = "create_driver" ->
            [returned |-> FALSE, exc |-> fail.str, ops |-> <<>>]
      [] fail.step = "set_page_load_timeout" ->
            [returned |-> FALSE, exc |-> fail.str,
             ops |-> <<"Chrome", "set_page_load_timeout">>]
      [] OTHER ->
            [returned |-> TRUE, exc |-> "",
             ops |-> <<"Chrome", "set_page_load_timeout">>]

\* finally: if driver: try: driver.quit() except Exception: pass.
\* driver is what create_driver returned, None when it raised; quit_ok is
\* not consulted: what quit raises is dropped.
Finally(stats_data, driver, ops, quit_ok) ==
    IF driver
    THEN [Returned(stats_data, 1) EXCEPT !.ops = ops \o <<"quit">>]
    ELSE [Returned(stats_data, 0) EXCEPT !.ops = ops]

\* fetch_statistics: in.create, the exception create_driver raises (or
\* NoFailure); in.login_ok, what login returns; in.fail, the exception
\* raised inside parse_statistics; in.quit_ok, whether driver.quit()
\* returns.
fetch_statistics(page, in) ==
    LET made == create_driver(in.create)
    IN  IF ~made.returned
        THEN Finally([StatsData EXCEPT !.error = made.exc], FALSE, made.ops,
                     in.quit_ok)
        ELSE IF ~in.login_ok
        THEN Finally([StatsData EXCEPT !.error = "Login failed"], TRUE,
                     made.ops \o <<"login">>, in.quit_ok)
        ELSE Finally(parse_statistics(page, in.fail), TRUE,
                     made.ops \o <<"login", "parse_statistics">>, in.quit_ok)

(***************************************************************************)
(* storage.stats_to_dict                                                   *)
(***************************************************************************)
stats_to_dict(stats_data) ==
    (IF stats_data.p2p_bot.k = "block"
     THEN "p2p_bot" :> [name |-> stats_data.p2p_bot.name,
                        metrics |-> stats_data.p2p_bot.metrics]
     ELSE EmptyDict)
    @@
    (IF stats_data.posting_bot.k = "block"
     THEN "posting_bot" :> [name |-> stats_data.posting_bot.name,
                            metrics |-> stats_data.posting_bot.metrics,
                            subsections |-> stats_data.posting_bot.subsections]
     ELSE EmptyDict)

(***************************************************************************)
(* scraper.format_stats_message                                            *)
(* The message is the sequence of its lines.  A line is a record: t is its *)
(* kind, key its bold part (header name, metric label, error text), value  *)
(* the metric's value and diff the text inside the trailing parentheses,   *)
(* empty when the line has none.                                           *)
(***************************************************************************)
Line(t, key, value, diff) == [t |-> t, key |-> key, value |-> value, diff |-> diff]
Blank == Line("blank", "", <<>>, <<>>)
ReportMarker == Line("marker", "#Report", <<>>, <<>>)

\* A message end without the marker.
TrailerUnmarked == <<Blank, Blank>>

\* "\n\n\n#Report"
Trailer == <<Blank, Blank, ReportMarker>>

\* The labels and subsection names of the model's pages, in the order in
\* which a mapping's items are rendered.
KeyOrder == <<"Aktivnyh", "Konversiya", "Otpravleno">>
SectionOrder == <<"Posty", "Storis">>

\* One "<b>key</b>: value" or "<b>key</b>: value (diff)" line per item;
\* diff = group_diffs.get(key, '').
RECURSIVE MetricLines(_, _, _)
MetricLines(order, metrics, group_diffs) ==
    IF order = <<>> THEN <<>>
    ELSE
    LET key == Head(order)
        diff == IF key \in DOMAIN group_diffs THEN group_diffs[key] ELSE <<>>
    IN  (IF key \in DOMAIN metrics
         THEN <<Line("metric", key, metrics[key], diff)>> ELSE <<>>)
        \o MetricLines(Tail(order), metrics, group_diffs)

\* A block: its bold name, then its metric lines.
BlockLines(name, metrics, group_diffs) ==
    <<Line("header", name, <<>>, <<>>)>>
    \o MetricLines(KeyOrder, metrics, group_diffs)

\* The blocks of the non-empty subsections.
RECURSIVE SectionParts(_, _, _)
SectionParts(order, subsections, diffs) ==
    IF order = <<>> THEN <<>>
    ELSE
    LET section_name == Head(order)
    IN  (IF section_name \in DOMAIN subsections
            /\ DOMAIN subsections[section_name] # {}
         THEN <<BlockLines(section_name, subsections[section_name],
                           Get(Get(diffs, "subsections"), section_name))>>
         ELSE <<>>)
        \o SectionParts(Tail(order), subsections, diffs)

\* '\n\n'.join(message_parts)
RECURSIVE JoinParts(_)
JoinParts(parts) ==
    IF parts = <<>> THEN <<>>
    ELSE IF Len(parts) = 1 THEN parts[1]
    ELSE parts[1] \o <<Blank>> \o JoinParts(Tail(parts))

format_stats_message(stats_data, diffs) ==
    IF HasError(stats_data)
    THEN <<Line("error", stats_data.error, <<>>, <<>>)>> \o Trailer
    ELSE
    LET p2p_parts ==
            IF stats_data.p2p_bot.k = "block"
            THEN <<BlockLines(stats_data.p2p_bot.name,
                              stats_data.p2p_bot.metrics,
                              Get(diffs, "p2p_bot"))>>
            ELSE <<>>
        posting_parts ==
            IF stats_data.posting_bot.k = "block"
            THEN <<BlockLines(stats_data.posting_bot.name,
                              stats_data.posting_bot.metrics,
                              Get(diffs, "posting_bot"))>>
                 \o SectionParts(SectionOrder,
                                 stats_data.posting_bot.subsections, diffs)
            ELSE <<>>
        message_parts == p2p_parts \o posting_parts
    IN  IF message_parts = <<>>
        THEN <<Line("nodata", "Statistika", <<>>, <<>>)>> \o Trailer
        ELSE JoinParts(message_parts) \o Trailer

(***************************************************************************)
(* A call that has not been made yet.                                      *)
(***************************************************************************)
NotCalled == [k |-> "pending", s |-> <<>>, exc |-> "-"]
DiffsNotCalled == [k |-> "pending", diffs |-> EmptyDiffs, exc |-> "-"]

(***************************************************************************)
(* Value texts a metric badge can show: counts, comma decimals with two    *)
(* and three fractional digits, thousands separated by a space or a        *)
(* no-break space, a signed number, texts that are no number, and the      *)
(* texts float() reads as nan and infinity.  No two of them are a tie of   *)
(* the two-decimal rounding apart.                                         *)
(***************************************************************************)
ValueTexts ==
    { <<"1", "0", "0">>, <<"1", "0", "5">>,
      <<"1", ",", "8", "3">>, <<"1", ",", "5", "0">>,
      <<"1", ",", "1", "2", "3">>, <<"2", ",", "5">>,
      <<"0">>, <<"-", "7">>,
      <<"1", "2", " ", "3", "4", "5">>, <<"1", "2", "nbsp", "0", "0", "0">>,
      <<"n", "/", "a">>, <<>>,
      <<"N", "a", "N">>, <<"i", "n", "f">> }

\* The variables of the other specifications, idle.
(***************************************************************************)
(* storage.load_previous_stats / save_current_stats and STATS_FILE         *)
(* The file is absent, or holds text: the complete JSON text of a record   *)
(* d, or text that json.load rejects (what a write cut short leaves: the   *)
(* file emptied by open(..., 'w'), or a prefix of the record's text).      *)
(***************************************************************************)
Absent == [k |-> "absent", d |-> EmptyDict, complete |-> FALSE]
Record(d) == [k |-> "file", d |-> d, complete |-> TRUE]
Partial == [k |-> "file", d |-> EmptyDict, complete |-> FALSE]

LoadNotCalled == [k |-> "pending", d |-> EmptyDict]
LoadRaised == [k |-> "raise", d |-> EmptyDict]

\* What a load finds in the file; read_ok: open() and the read succeed.
Observe(file, read_ok) ==
    IF file.k = "absent" THEN "absent"
    ELSE IF ~read_ok THEN "unreadable"
    ELSE IF ~file.complete THEN "partial"
    ELSE "complete"

\* The try block of load_previous_stats: open() or json.load may raise.
ReadStatsFile(file, read_ok) ==
    IF file.k = "absent" THEN JsonNone
    ELSE IF ~read_ok \/ ~file.complete THEN LoadRaised
    ELSE JsonDict(file.d)

\* load_previous_stats without its except clause.
load_previous_stats_unguarded(file, read_ok) == ReadStatsFile(file, read_ok)

load_previous_stats(file, read_ok) ==
    LET data == ReadStatsFile(file, read_ok)
    IN  IF data.k = "raise" THEN JsonNone ELSE data

\* How a save ends: the record written and the file closed; open() raises
\* (the file is left as it was); a write or the closing flush raises after
\* open(..., 'w') has emptied the file.
SaveOutcomes == {"ok", "open_fails", "write_fails"}

\* save_current_stats that writes the new groups over the loaded record,
\* keeping the keys the new dict has not.
save_current_stats_merging(stats_data, now, outcome, file) ==
    LET stamped == Put(stats_data, "timestamp", now)
    IN  CASE outcome = "ok" -> [file |-> Record(stamped @@ file.d), ret |-> TRUE]
          [] outcome = "open_fails" -> [file |-> file, ret |-> FALSE]
          [] outcome = "write_fails" -> [file |-> Partial, ret |-> FALSE]

\* save_current_stats: the file afterwards and the value returned.
save_current_stats(stats_data, now, outcome, file) ==
    LET stamped == Put(stats_data, "timestamp", now)
    IN  CASE outcome = "ok" -> [file |-> Record(stamped), ret |-> TRUE]
          [] outcome = "open_fails" -> [file |-> file, ret |-> FALSE]
          [] outcome = "write_fails" -> [file |-> Partial, ret |-> FALSE]

(***************************************************************************)
(* scraper.generate_charts: the titles of the charts it returns.           *)
(***************************************************************************)
generate_charts(stats_data) ==
    (IF /\ stats_data.p2p_bot.k = "block"
        /\ \E key \in DOMAIN stats_data.p2p_bot.metrics :
               FloatIsPositive(parse_number(stats_data.p2p_bot.metrics[key]))
     THEN <<"p2pDox">> ELSE <<>>)
    \o
    (IF /\ stats_data.posting_bot.k = "block"
        /\ DOMAIN stats_data.posting_bot.subsections # {}
     THEN <<"Doxposting">> ELSE <<>>)

\* The combined Posting image (lines 451-514): what each of its two axes
\* shows.  values is the dict label -> plotted number of a pie.
Epsilon == Fin(100)

\* num is not None and num >= 0
FloatNonNegative(x) == (x.k = "fin" /\ x.v >= 0) \/ (x.k = "inf" /\ x.v > 0)

\* max(num, 0.1) for a num that is no nan: the second when it is greater.
FloatMax(x, y) ==
    IF x.k = "fin" /\ y.k = "fin" /\ y.v > x.v THEN y ELSE x

\* sum(values) > 0, for values none of which is negative or nan.
SumPositive(values) ==
    \E key \in DOMAIN values : FloatIsPositive(values[key])

BlankAxes == [kind |-> "blank", values |-> EmptyDict]
Placeholder == [kind |-> "placeholder", values |-> EmptyDict]
Pie(values) == [kind |-> "pie", values |-> values]

\* if posts: ... axes[0].pie(values, ...) else axes[0].text(..., 'Нет данных')
SubChart(subgroup) ==
    IF DOMAIN subgroup = {} THEN BlankAxes
    ELSE LET eligible == {key \in DOMAIN subgroup :
                             FloatNonNegative(parse_number(subgroup[key]))}
             values == [key \in eligible |->
                           FloatMax(parse_number(subgroup[key]), Epsilon)]
         IN  IF eligible # {} /\ SumPositive(values) THEN Pie(values)
             ELSE Placeholder

NoImage == [k |-> "none", posts |-> BlankAxes, stories |-> BlankAxes]

PostingImage(stats_data) ==
    IF /\ stats_data.posting_bot.k = "block"
       /\ DOMAIN stats_data.posting_bot.subsections # {}
    THEN [k |-> "image",
          posts |-> SubChart(Get(stats_data.posting_bot.subsections, "Posty")),
          stories |-> SubChart(Get(stats_data.posting_bot.subsections, "Storis"))]
    ELSE NoImage

ChartsNotDrawn == [k |-> "pending", titles |-> <<>>, posting |-> NoImage]

IdleCharts ==
    /\ chartData = StatsData
    /\ charts = ChartsNotDrawn

(***************************************************************************)
(* main.send_stats_to_telegram: one run.                                   *)
(*   pc        where the coroutine stands                                  *)
(*   stats_data, text, charts   its locals stats_data, message, charts     *)
(*   observed  what load_previous_stats found in the file                  *)
(*   loaded, diffs   what load_previous_stats and get_diffs gave           *)
(*   save      whether save_current_stats was called and what it returned  *)
(*   exc       str(e) of the exception the except clause caught            *)
(*   sent      the messages the run sent, in order                         *)
(*   result    the value returned                                          *)
(*   trigger   what called it: main's start-up run, a scheduled_job, or    *)
(*             stats_command                                               *)
(***************************************************************************)
MaxRuns == 2

Runs == 1..MaxRuns

IdleRun ==
    [pc |-> "idle", stats_data |-> StatsData, observed |-> "not_called",
     loaded |-> LoadNotCalled, diffs |-> DiffsNotCalled,
     save |-> "not_called", text |-> <<>>, charts |-> <<>>, exc |-> "",
     sent |-> <<>>, result |-> "-", trigger |-> "none"]

\* The latest call of save_current_stats: the run, the file before it, the
\* timestamp and how it ended.
NoSave == [run |-> 0, prior |-> Absent, now |-> 0, outcome |-> "none"]

IdleRuns ==
    /\ runs = [r \in Runs |-> IdleRun]
    /\ storeFile = Absent
    /\ clock = 1
    /\ started = 0
    /\ lastSave = NoSave

IdleParse ==
    /\ html = <<>>
    /\ fetchInput = [create |-> NoFailure, login_ok |-> TRUE,
                     fail |-> NoFailure, quit_ok |-> TRUE]
    /\ parsed = FetchPending
    /\ fetched = FetchPending

IdleGetDiffs ==
    /\ statsData = StatsData
    /\ currentStats = EmptyDict
    /\ previousStats = JsonNone
    /\ deltaSet = DiffsNotCalled
    /\ report = <<>>

IdleDiff ==
    /\ currentValue = <<>>
    /\ previousValue = <<>>
    /\ delta = NotCalled

(***************************************************************************)
(* SpecDiff: calculate_diff on every pair of value texts.                  *)
(***************************************************************************)
InitDiff ==
    /\ currentValue \in ValueTexts
    /\ previousValue \in ValueTexts
    /\ delta = NotCalled
    /\ IdleGetDiffs
    /\ IdleParse
    /\ IdleRuns
    /\ IdleLogin
    /\ IdleCharts

CalculateDiff ==
    /\ delta = NotCalled
    /\ delta' = calculate_diff(currentValue, previousValue)
    /\ UNCHANGED <<currentValue, previousValue, getDiffsVars, parseVars, runVars,
                   loginVars, chartVars>>

NextDiff == CalculateDiff

SpecDiff == InitDiff /\ [][NextDiff]_vars

\* current - previous of the pair at hand, and whether both texts parse.
PairDiff == FloatSub(parse_number(currentValue), parse_number(previousValue))
PairParses ==
    /\ parse_number(currentValue).k # "none"
    /\ parse_number(previousValue).k # "none"

\* The text s reads as: digits whose value is n.
ReadsAsNat(s, n) == s # <<>> /\ AllDigits(s) /\ DigitsVal(s) = n

\* The text s reads as: digits, a comma, exactly two digits, and is the
\* magnitude a (in thousandths) rounded to two decimals.
ReadsAsTwoDecimals(s, a) ==
    /\ Len(s) >= 4
    /\ s[Len(s) - 2] = ","
    /\ LET ip == SubSeq(s, 1, Len(s) - 3)
           fp == SubSeq(s, Len(s) - 1, Len(s))
       IN  /\ ip # <<>> /\ AllDigits(ip) /\ AllDigits(fp)
           /\ Abs(10 * (100 * DigitsVal(ip) + DigitsVal(fp)) - a) <= 5

\* The form the delta text has for a finite non-zero difference d.
DeltaForm(s, d) ==
    /\ s # <<>>
    /\ Head(s) = (IF d > 0 THEN "+" ELSE "-")
    /\ IF d % 1000 = 0 THEN ReadsAsNat(Tail(s), Abs(d) \div 1000)
       ELSE ReadsAsTwoDecimals(Tail(s), Abs(d))

\* C6: for every pair of parseable values with a non-zero difference d,
\* calculate_diff returns a text: the sign and the integer when d is whole,
\* else the sign and d rounded to exactly two decimals, with a comma.
DeltaFormat_C6 ==
    (delta.k # "pending" /\ PairParses /\ ~FloatIsZero(PairDiff))
        => /\ delta.k = "str"
           /\ PairDiff.k = "fin"
           /\ DeltaForm(delta.s, PairDiff.v)

\* The same for the pairs whose difference is finite (the texts that parse
\* to nan or infinity left out).
DeltaFormatFinite ==
    (delta.k # "pending" /\ PairParses /\ PairDiff.k = "fin" /\ PairDiff.v # 0)
        => delta.k = "str" /\ DeltaForm(delta.s, PairDiff.v)

\* C7 as stated: parse_number of a delta text that calculate_diff produced
\* is the difference current - previous itself.
RoundTripExact_C7 ==
    delta.k = "str" => parse_number(delta.s) = PairDiff

\* C7 amended: parse_number of a produced delta text is the difference
\* rounded to two decimals: a multiple of a hundredth at most half a
\* hundredth from the difference, and the difference itself when that has
\* at most two decimals.
RoundTripRounded_C7 ==
    delta.k = "str" =>
        LET back == parse_number(delta.s)
        IN  /\ back.k = "fin" /\ PairDiff.k = "fin"
            /\ back.v % 10 = 0
            /\ Abs(back.v - PairDiff.v) <= 5
            /\ (PairDiff.v % 10 = 0 => back.v = PairDiff.v)

\* A delta was produced for a negative difference with three decimals.
RoundTripWitness_C7 ==
    /\ delta.k = "str"
    /\ PairDiff.k = "fin" /\ PairDiff.v < 0 /\ PairDiff.v % 10 # 0

(***************************************************************************)
(* SpecGetDiffs: lines 54-64 of send_stats_to_telegram without the store:  *)
(* stats_to_dict, get_diffs and format_stats_message on every pair of an   *)
(* error-free snapshot and a previous record (or none).                    *)
(***************************************************************************)
T100 == <<"1", "0", "0">>
T105 == <<"1", "0", "5">>
T183 == <<"1", ",", "8", "3">>
TNoNumber == <<"n", "/", "a">>
TNaN == <<"N", "a", "N">>

DiffValues == {T100, T105, TNoNumber, TNaN}

\* No entry, or one entry key -> v for a v of vals.
OptEntry(key, vals) == {EmptyDict} \cup {key :> v : v \in vals}

\* The blocks parse_statistics can attach: a P2P block has a metric; a
\* Posting block has a metric or a subsection (possibly an empty one).
P2PBlocks ==
    {[StatsBlock("p2pDox") EXCEPT !.metrics = a @@ b] :
        a \in OptEntry("Aktivnyh", DiffValues),
        b \in OptEntry("Konversiya", {T183})}
    \ {StatsBlock("p2pDox")}

PostingBlocks ==
    {[StatsBlock("Doxposting") EXCEPT !.metrics = a, !.subsections = s] :
        a \in OptEntry("Aktivnyh", {T100, T105, TNoNumber}),
        s \in {EmptyDict}
              \cup {"Posty" :> b :
                        b \in OptEntry("Otpravleno", {T100, T105, TNaN})}}
    \ {StatsBlock("Doxposting")}

Snapshots ==
    {[StatsData EXCEPT !.p2p_bot = p, !.posting_bot = q] :
        p \in {NoBlock} \cup P2PBlocks, q \in {NoBlock} \cup PostingBlocks}

\* What load_previous_stats can return: None, or a record written by an
\* earlier save_current_stats (a snapshot's dict and its timestamp).
PreviousRecords ==
    {JsonNone}
    \cup {JsonDict(Put(stats_to_dict(s), "timestamp", 0)) : s \in Snapshots}

InitGetDiffs ==
    /\ statsData \in Snapshots
    /\ previousStats \in PreviousRecords
    /\ currentStats = EmptyDict
    /\ deltaSet = DiffsNotCalled
    /\ report = <<>>
    /\ IdleDiff
    /\ IdleParse
    /\ IdleRuns
    /\ IdleLogin
    /\ IdleCharts

\* current_stats = stats_to_dict(stats_data); diffs = get_diffs(...);
\* message = format_stats_message(stats_data, diffs)
Compare ==
    /\ deltaSet = DiffsNotCalled
    /\ currentStats' = stats_to_dict(statsData)
    /\ deltaSet' = get_diffs(currentStats', previousStats)
    /\ report' = IF deltaSet'.k = "ok"
                 THEN format_stats_message(statsData, deltaSet'.diffs)
                 ELSE <<>>
    /\ UNCHANGED <<statsData, previousStats, diffVars, parseVars, runVars,
                   loginVars, chartVars>>

NextGetDiffs == Compare

SpecGetDiffs == InitGetDiffs /\ [][NextGetDiffs]_vars

\* The messages' metric lines that carry a parenthetical delta.
DeltaLines(msg) ==
    {i \in 1..Len(msg) : msg[i].t = "metric" /\ msg[i].diff # <<>>}

MetricLineCount(msg) == Cardinality({i \in 1..Len(msg) : msg[i].t = "metric"})

\* C4: with no persisted snapshot (load_previous_stats returned None),
\* get_diffs returns a DeltaSet without any entry, whatever the current
\* snapshot holds, and no metric line of the report carries a delta.
NoHistoryNoDeltas_C4 ==
    (deltaSet.k # "pending" /\ previousStats = JsonNone)
        => /\ deltaSet.k = "ok"
           /\ DOMAIN deltaSet.diffs.p2p_bot = {}
           /\ DOMAIN deltaSet.diffs.posting_bot = {}
           /\ \A s \in DOMAIN deltaSet.diffs.subsections :
                 DOMAIN deltaSet.diffs.subsections[s] = {}
           /\ DeltaLines(report) = {}
           /\ Len(report) > 0

\* A first run whose snapshot has both groups, a subsection and a value
\* that reads as nan was compared and rendered.
NoHistoryWitness_C4 ==
    /\ deltaSet.k = "ok" /\ previousStats = JsonNone
    /\ statsData.p2p_bot.k = "block"
    /\ statsData.posting_bot.k = "block"
    /\ "Posty" \in DOMAIN statsData.posting_bot.subsections
    /\ \E key \in DOMAIN statsData.p2p_bot.metrics :
           statsData.p2p_bot.metrics[key] = TNaN
    /\ MetricLineCount(report) >= 3

\* The claim's condition for a delta entry of a label: present on both
\* sides, both values parse as numbers, the difference is not zero.
ShouldHaveEntry(cur_metrics, prev_metrics, key) ==
    /\ key \in DOMAIN cur_metrics
    /\ key \in DOMAIN prev_metrics
    /\ parse_number(cur_metrics[key]).k # "none"
    /\ parse_number(prev_metrics[key]).k # "none"
    /\ ~FloatIsZero(FloatSub(parse_number(cur_metrics[key]),
                             parse_number(prev_metrics[key])))

AllKeys == {KeyOrder[i] : i \in 1..Len(KeyOrder)}
AllSections == {SectionOrder[i] : i \in 1..Len(SectionOrder)}

\* The metrics of group g in a snapshot dict, none when the group is absent.
GroupMetrics(stats, g) ==
    IF g \in DOMAIN stats THEN stats[g].metrics ELSE EmptyDict
\* The entries of subsection s, none when the group or subsection is absent.
SectionMetrics(stats, s) ==
    IF "posting_bot" \in DOMAIN stats
       /\ s \in DOMAIN stats["posting_bot"].subsections
    THEN stats["posting_bot"].subsections[s] ELSE EmptyDict

\* The DeltaSet has exactly the entries the claim names, against the
\* previous record prev.
ExactEntries(prev) ==
    /\ \A g \in {"p2p_bot", "posting_bot"} : \A key \in AllKeys :
          key \in DOMAIN deltaSet.diffs[g]
              <=> ShouldHaveEntry(GroupMetrics(currentStats, g),
                                  GroupMetrics(prev, g), key)
    /\ \A s \in AllSections : \A key \in AllKeys :
          (s \in DOMAIN deltaSet.diffs.subsections
           /\ key \in DOMAIN deltaSet.diffs.subsections[s])
              <=> ShouldHaveEntry(SectionMetrics(currentStats, s),
                                  SectionMetrics(prev, s), key)

\* C5: get_diffs returns (raises nothing) and emits an entry for a label
\* exactly when the label is under the same group or subgroup on both
\* sides, both values parse as numbers and their difference is not zero.
ExactEntries_C5 ==
    (deltaSet.k # "pending" /\ previousStats # JsonNone)
        => deltaSet.k = "ok" /\ ExactEntries(previousStats.d)

\* The same for the pairs of snapshots in which no value reads as nan.
HoldsNaN(stats) ==
    \E key \in AllKeys :
        \/ \E g \in {"p2p_bot", "posting_bot"} :
              key \in DOMAIN GroupMetrics(stats, g)
              /\ GroupMetrics(stats, g)[key] = TNaN
        \/ \E s \in AllSections :
              key \in DOMAIN SectionMetrics(stats, s)
              /\ SectionMetrics(stats, s)[key] = TNaN

NoNaNPair == ~HoldsNaN(stats_to_dict(statsData)) /\ ~HoldsNaN(previousStats.d)

ExactEntriesFinite ==
    (deltaSet.k # "pending" /\ previousStats # JsonNone /\ NoNaNPair)
        => deltaSet.k = "ok" /\ ExactEntries(previousStats.d)

(***************************************************************************)
(* SpecParse: parse_statistics and fetch_statistics on every page of at    *)
(* most MaxCards top-level cards, with every outcome of the browser steps. *)
(***************************************************************************)
MaxCards == 2

Item(key, value) == [key |-> key, value |-> value, ok |-> TRUE]
\* A div whose label or value element is missing.
BadItem == [key |-> "", value |-> <<>>, ok |-> FALSE]

Div(cls, flex_items, boxes) ==
    [cls |-> cls, flex_items |-> flex_items, boxes |-> boxes]

Card(header, has_body, info_items, flex_items, subdivs) ==
    [has_header |-> TRUE, header |-> header, has_body |-> has_body,
     info_items |-> info_items, flex_items |-> flex_items, subdivs |-> subdivs]

P2PCards ==
    { Card({"P2P", "Bot"}, TRUE, <<Item("Aktivnyh", T100)>>, <<>>, <<>>),
      Card({"P2P", "Bot"}, TRUE, <<>>, <<Item("Aktivnyh", T105)>>, <<>>),
      Card({"P2P"}, TRUE, <<Item("Aktivnyh", T100)>>,
           <<Item("Konversiya", T183)>>, <<>>),
      Card({"P2P"}, TRUE, <<BadItem>>, <<Item("Konversiya", T183)>>, <<>>),
      Card({"P2P", "Bot"}, FALSE, <<>>, <<>>, <<>>) }

PostingCards ==
    { \* direct metrics, a Posts and a Stories card with stat boxes
      Card({"Posting", "Bot"}, TRUE, <<>>, <<Item("Aktivnyh", T100)>>,
           << Div(<<"card", "border-primary">>,
                  <<Item("Otpravleno", T105)>>, <<Item("Otpravleno", T100)>>),
              Div(<<"card", "border-info">>, <<>>,
                  <<Item("Otpravleno", T105)>>) >>),
      \* no direct metric, a Posts card without stat boxes
      Card({"Posting", "Bot"}, TRUE, <<>>, <<>>,
           << Div(<<"card", "border-primary">>, <<>>, <<>>) >>),
      \* no direct metric, a Stories card whose only box lacks its label
      Card({"Posting"}, TRUE, <<>>, <<>>,
           << Div(<<"card", "border-info">>, <<>>, <<BadItem>>) >>),
      \* a Posts card that carries one more class name
      Card({"Posting"}, TRUE, <<>>, <<Item("Aktivnyh", T105)>>,
           << Div(<<"card", "h-100", "border-primary">>,
                  <<Item("Konversiya", T183)>>,
                  <<Item("Otpravleno", T100)>>) >>),
      \* nothing to extract
      Card({"Posting", "Bot"}, TRUE, <<>>, <<>>, <<>>) }

OtherCards ==
    { Card({"Users"}, TRUE, <<Item("Aktivnyh", T100)>>, <<>>, <<>>),
      [Card({}, TRUE, <<>>, <<Item("Aktivnyh", T100)>>, <<>>)
           EXCEPT !.has_header = FALSE] }

Cards == P2PCards \cup PostingCards \cup OtherCards

Pages == UNION {[1..n -> Cards] : n \in 0..MaxCards}

FetchInputs ==
    [create : {NoFailure} \cup CreateFailures, login_ok : BOOLEAN,
     fail : {NoFailure} \cup ParseFailures, quit_ok : BOOLEAN]

InitParse ==
    /\ html \in Pages
    /\ fetchInput \in FetchInputs
    /\ parsed = FetchPending
    /\ fetched = FetchPending
    /\ IdleDiff
    /\ IdleGetDiffs
    /\ IdleRuns
    /\ IdleLogin
    /\ IdleCharts

\* parse_statistics(driver) on the page.
Parse ==
    /\ parsed = FetchPending
    /\ parsed' = Returned(parse_statistics(html, fetchInput.fail), 0)
    /\ UNCHANGED <<html, fetchInput, fetched, diffVars, getDiffsVars, runVars,
                   loginVars, chartVars>>

\* fetch_statistics() with the page as what the browser renders.
Fetch ==
    /\ fetched = FetchPending
    /\ fetched' = fetch_statistics(html, fetchInput)
    /\ UNCHANGED <<html, fetchInput, parsed, diffVars, getDiffsVars, runVars,
                   loginVars, chartVars>>

NextParse == Parse \/ Fetch

SpecParse == InitParse /\ [][NextParse]_vars

\* A group holds data: a metric, or a subsection with an entry.
HoldsData(block) ==
    \/ DOMAIN block.metrics # {}
    \/ \E s \in DOMAIN block.subsections : DOMAIN block.subsections[s] # {}

\* C2: a group is attached to the snapshot parse_statistics returns only
\* if it has at least one metric or at least one non-empty subgroup.
EmptyGroupOmitted_C2 ==
    parsed.k = "return" =>
        /\ parsed.stats_data.p2p_bot.k = "block"
              => HoldsData(parsed.stats_data.p2p_bot)
        /\ parsed.stats_data.posting_bot.k = "block"
              => HoldsData(parsed.stats_data.posting_bot)

\* C3: a snapshot returned by parse_statistics or fetch_statistics with
\* its error field set has neither group, and no exception escapes either
\* function.
ErrorMeansNoGroups(out) ==
    out.k # "pending" =>
        /\ out.k = "return"
        /\ out.stats_data.error # NoError
              => /\ out.stats_data.p2p_bot = NoBlock
                 /\ out.stats_data.posting_bot = NoBlock

ErrorMeansNoGroups_C3 ==
    ErrorMeansNoGroups(parsed) /\ ErrorMeansNoGroups(fetched)

\* Both functions returned an error raised in the loop over the cards of a
\* page whose cards hold metrics of both groups.
ErrorWitness_C3 ==
    /\ parsed.k = "return" /\ fetched.k = "return"
    /\ fetchInput.fail.step = "cards"
    /\ parsed.stats_data.error = fetchInput.fail.str
    /\ fetched.stats_data.error = fetchInput.fail.str
    /\ LET ok == parse_statistics(html, NoFailure)
       IN  ok.p2p_bot.k = "block" /\ ok.posting_bot.k = "block"

(***************************************************************************)
(* Spec: up to MaxRuns runs of send_stats_to_telegram (the start-up run,   *)
(* the scheduler's jobs, /stats commands) on one event loop, sharing the   *)
(* snapshot file.  A run gives way to the others at each await.            *)
(***************************************************************************)
P2PRunCard(value) ==
    Card({"P2P", "Bot"}, TRUE, <<Item("Aktivnyh", value)>>, <<>>, <<>>)

PostingRunCard ==
    Card({"Posting", "Bot"}, TRUE, <<>>, <<Item("Aktivnyh", T100)>>,
         << Div(<<"card", "border-primary">>, <<>>,
                <<Item("Otpravleno", T105)>>) >>)

\* The pages the dashboard shows to a run.
RunPages ==
    { <<>>,
      <<P2PRunCard(T100)>>,
      <<P2PRunCard(TNaN)>>,
      <<P2PRunCard(T105), PostingRunCard>> }

RunInputs ==
    [create : {NoFailure} \cup CreateFailures, login_ok : BOOLEAN,
     fail : {NoFailure} \cup Failures({"wait"}), quit_ok : BOOLEAN]

\* A record an earlier execution of the program left in the file.
OldRecord ==
    Record(Put(stats_to_dict(
                   parse_statistics(<<P2PRunCard(T100), PostingRunCard>>,
                                    NoFailure)),
               "timestamp", 0))

\* The text of the notification the except clause sends.
NotifyText(e) ==
    <<Line("notify", "Oshibka", <<>>, <<>>), Line("exc", e, <<>>, <<>>)>>
    \o Trailer

Message(kind, text) == [kind |-> kind, text |-> text]

Init ==
    /\ runs = [r \in Runs |-> IdleRun]
    /\ storeFile \in {Absent, OldRecord}
    /\ clock = 1
    /\ started = 0
    /\ lastSave = NoSave
    /\ IdleDiff
    /\ IdleGetDiffs
    /\ IdleParse
    /\ IdleLogin
    /\ IdleCharts

Triggers == {"startup", "cron", "command"}

\* The runs that have been entered and have not returned.
InProgress == {q \in Runs : runs[q].pc \notin {"idle", "done"}}

\* Whether a trigger can call send_stats_to_telegram now.
\*   startup: main calls it once, right after scheduler.start(), when
\*            TELEGRAM_CHAT_ID is set (line 219).
\*   cron:    the scheduler exists only when TELEGRAM_CHAT_ID is set, and
\*            its jobs get the event loop at the start-up run's first
\*            await at the earliest; nothing makes a job wait for a run in
\*            progress.
\*   command: the updater polls only after the start-up run has returned
\*            (lines 229-231), and the application handles one update at
\*            a time, so stats_command runs one after the other.
CanTrigger(trigger) ==
    CASE trigger = "startup" -> started = 0
      [] trigger = "cron" -> started >= 1 /\ runs[1].trigger = "startup"
      [] trigger = "command" ->
            \A q \in InProgress : runs[q].trigger = "cron"

\* send_stats_to_telegram is entered; fetch_statistics is handed to the
\* executor (line 41).
RunStart(r) ==
    /\ r = started + 1
    /\ runs[r].pc = "idle"
    /\ started' = r
    /\ \E trigger \in Triggers :
          /\ CanTrigger(trigger)
          /\ runs' = [runs EXCEPT ![r].pc = "fetching",
                                  ![r].trigger = trigger]
    /\ UNCHANGED <<storeFile, clock, lastSave>>
    /\ UNCHANGED <<diffVars, getDiffsVars, parseVars, loginVars, chartVars>>

\* fetch_statistics returns in the executor's thread.
FetchStatistics(r) ==
    /\ runs[r].pc = "fetching"
    /\ \E page \in RunPages, in \in RunInputs :
          runs' = [runs EXCEPT
                      ![r].stats_data = fetch_statistics(page, in).stats_data,
                      ![r].pc = "fetched"]
    /\ UNCHANGED <<storeFile, clock, started, lastSave>>
    /\ UNCHANGED <<diffVars, getDiffsVars, parseVars, loginVars, chartVars>>

\* Lines 60-64 once get_diffs has returned or raised; saved is what
\* save_current_stats does when it is reached.
AfterDiffs(stats_data, file, seen, previous_stats, diffs, outcome, saved) ==
    IF diffs.k = "raise"
    THEN [raised |-> TRUE, exc |-> diffs.exc, observed |-> seen,
          loaded |-> previous_stats, diffs |-> diffs, save |-> "not_called",
          outcome |-> "none", text |-> <<>>, file |-> file]
    ELSE [raised |-> FALSE, exc |-> "", observed |-> seen,
          loaded |-> previous_stats, diffs |-> diffs,
          save |-> IF saved.ret THEN "ok" ELSE "failed",
          outcome |-> outcome,
          text |-> format_stats_message(stats_data, diffs.diffs),
          file |-> saved.file]

\* Lines 57-64 once load_previous_stats has returned (or raised).
AfterLoad(stats_data, current_stats, file, now, outcome, seen, previous_stats) ==
    IF previous_stats.k = "raise"
    THEN [raised |-> TRUE, exc |-> "load failed", observed |-> seen,
          loaded |-> previous_stats, diffs |-> DiffsNotCalled,
          save |-> "not_called", outcome |-> "none", text |-> <<>>,
          file |-> file]
    ELSE AfterDiffs(stats_data, file, seen, previous_stats,
                    get_diffs(current_stats, previous_stats), outcome,
                    save_current_stats(current_stats, now, outcome, file))

\* Lines 53-64: stats_to_dict, load_previous_stats, get_diffs,
\* save_current_stats, format_stats_message; no await in between.
CompareAndSave(stats_data, file, now, read_ok, outcome) ==
    AfterLoad(stats_data, stats_to_dict(stats_data), file, now, outcome,
              Observe(file, read_ok), load_previous_stats(file, read_ok))

\* The state after lines 53-64 gave out.
Proceed(r, out) ==
    /\ runs' = [runs EXCEPT
                  ![r].observed = out.observed,
                  ![r].loaded = out.loaded,
                  ![r].diffs = out.diffs,
                  ![r].save = out.save,
                  ![r].text = out.text,
                  ![r].exc = out.exc,
                  ![r].pc = IF out.raised THEN "notify" ELSE "charts"]
    /\ storeFile' = out.file
    /\ clock' = IF out.save = "not_called" THEN clock ELSE clock + 1
    /\ lastSave' = IF out.save = "not_called" THEN lastSave
                   ELSE [run |-> r, prior |-> storeFile, now |-> clock,
                         outcome |-> out.outcome]

\* Lines 43-70: from the result of the fetch to the next await.
Continue(r) ==
    /\ runs[r].pc = "fetched"
    /\ IF HasError(runs[r].stats_data)
       THEN /\ runs' = [runs EXCEPT
                          ![r].text = format_stats_message(runs[r].stats_data,
                                                           EmptyDict),
                          ![r].pc = "send_error"]
            /\ UNCHANGED <<storeFile, clock, lastSave>>
       ELSE \E read_ok \in BOOLEAN, outcome \in SaveOutcomes :
               Proceed(r, CompareAndSave(runs[r].stats_data, storeFile, clock,
                                         read_ok, outcome))
    /\ UNCHANGED <<started, diffVars, getDiffsVars, parseVars, loginVars, chartVars>>

\* Lines 45-50: the error message is sent and the run returns False.
SendError(r) ==
    /\ runs[r].pc = "send_error"
    /\ \E send_ok \in BOOLEAN :
          runs' = IF send_ok
                  THEN [runs EXCEPT
                          ![r].sent = Append(@, Message("error", runs[r].text)),
                          ![r].result = "False",
                          ![r].pc = "done"]
                  ELSE [runs EXCEPT ![r].exc = "Timed out",
                                    ![r].pc = "notify"]
    /\ UNCHANGED <<storeFile, clock, started, lastSave>>
    /\ UNCHANGED <<diffVars, getDiffsVars, parseVars, loginVars, chartVars>>

\* Line 71: generate_charts returns in the executor's thread, or raises.
Charts(r) ==
    /\ runs[r].pc = "charts"
    /\ \E charts_ok \in BOOLEAN :
          runs' = IF charts_ok
                  THEN [runs EXCEPT
                          ![r].charts = generate_charts(runs[r].stats_data),
                          ![r].pc = "send_text"]
                  ELSE [runs EXCEPT ![r].exc = "chart failure",
                                    ![r].pc = "notify"]
    /\ UNCHANGED <<storeFile, clock, started, lastSave>>
    /\ UNCHANGED <<diffVars, getDiffsVars, parseVars, loginVars, chartVars>>

\* Lines 74-78: the text message.
SendText(r) ==
    /\ runs[r].pc = "send_text"
    /\ \E send_ok \in BOOLEAN :
          runs' = IF ~send_ok
                  THEN [runs EXCEPT ![r].exc = "Timed out",
                                    ![r].pc = "notify"]
                  ELSE IF runs[r].charts # <<>>
                  THEN [runs EXCEPT
                          ![r].sent = Append(@, Message("text", runs[r].text)),
                          ![r].pc = "send_media"]
                  ELSE [runs EXCEPT
                          ![r].sent = Append(@, Message("text", runs[r].text)),
                          ![r].result = "True",
                          ![r].pc = "done"]
    /\ UNCHANGED <<storeFile, clock, started, lastSave>>
    /\ UNCHANGED <<diffVars, getDiffsVars, parseVars, loginVars, chartVars>>

\* Lines 81-96: the charts as one media group.
SendMedia(r) ==
    /\ runs[r].pc = "send_media"
    /\ \E send_ok \in BOOLEAN :
          runs' = IF send_ok
                  THEN [runs EXCEPT
                          ![r].sent = Append(@, Message("media", <<>>)),
                          ![r].result = "True",
                          ![r].pc = "done"]
                  ELSE [runs EXCEPT ![r].exc = "Timed out",
                                    ![r].pc = "notify"]
    /\ UNCHANGED <<storeFile, clock, started, lastSave>>
    /\ UNCHANGED <<diffVars, getDiffsVars, parseVars, loginVars, chartVars>>

\* Lines 101-114: the except clause; what its own send raises is dropped.
Notify(r) ==
    /\ runs[r].pc = "notify"
    /\ \E send_ok \in BOOLEAN :
          runs' = [runs EXCEPT
                     ![r].sent = IF send_ok
                                 THEN Append(@, Message("notify",
                                                        NotifyText(runs[r].exc)))
                                 ELSE @,
                     ![r].result = "False",
                     ![r].pc = "done"]
    /\ UNCHANGED <<storeFile, clock, started, lastSave>>
    /\ UNCHANGED <<diffVars, getDiffsVars, parseVars, loginVars, chartVars>>

Next ==
    \E r \in Runs :
        \/ RunStart(r)
        \/ FetchStatistics(r)
        \/ Continue(r)
        \/ SendError(r)
        \/ Charts(r)
        \/ SendText(r)
        \/ SendMedia(r)
        \/ Notify(r)

Spec == Init /\ [][Next]_vars

\* The runs whose fetch has returned.
Fetched == {r \in Runs : runs[r].pc \notin {"idle", "fetching"}}

\* Run r has called neither load_previous_stats, get_diffs nor
\* save_current_stats.
StoreUntouched(r) ==
    /\ runs[r].observed = "not_called"
    /\ runs[r].loaded = LoadNotCalled
    /\ runs[r].diffs = DiffsNotCalled
    /\ runs[r].save = "not_called"
    /\ lastSave.run # r

\* C1: a run whose snapshot carries an error (its error field is set by a
\* login failure, a driver failure or a parse exception) performs neither
\* load/get_diffs nor save, so it leaves the persisted snapshot as it was.
ErrorRunSkipsStore_C1 ==
    \A r \in Fetched :
        runs[r].stats_data.error # NoError => StoreUntouched(r)

\* The same for the runs whose error text is not empty.
ErrorTextRunSkipsStore ==
    \A r \in Fetched :
        HasError(runs[r].stats_data) => StoreUntouched(r)

\* C8: load_previous_stats does not raise; for a missing, unreadable or
\* corrupt file it returns None and the run goes on as a first run does:
\* get_diffs gives the empty DeltaSet, the snapshot is saved and the report
\* is the one rendered without deltas.
MissingOrCorruptIsFirstRun_C8 ==
    \A r \in Runs :
        /\ runs[r].loaded.k # "raise"
        /\ runs[r].observed \in {"absent", "unreadable", "partial"}
              => /\ runs[r].loaded = JsonNone
                 /\ runs[r].diffs = DiffsOk(EmptyDiffs)
                 /\ runs[r].save # "not_called"
                 /\ runs[r].text =
                        format_stats_message(runs[r].stats_data, EmptyDiffs)
                 /\ \A i \in 1..Len(runs[r].text) :
                        runs[r].text[i].diff = <<>>

\* A run that found a cut-short record in the file delivered its report of
\* the P2P group.
CorruptFileWitness_C8 ==
    \E r \in Runs :
        /\ runs[r].observed = "partial"
        /\ runs[r].stats_data.p2p_bot.k = "block"
        /\ runs[r].pc = "done"
        /\ runs[r].result = "True"
        /\ Len(runs[r].sent) = 2

\* C9: no load_previous_stats observes a partially written record, also
\* not a load that follows a save interrupted midway.
LoadSeesCompleteRecord_C9 ==
    \A r \in Runs : runs[r].observed # "partial"

\* C10: once a save has completed, the file holds one complete record:
\* the groups of the saving run's snapshot and the timestamp, nothing of
\* the record before.
SavedRecordIsRunSnapshot_C10 ==
    lastSave.outcome = "ok" =>
        storeFile = Record(Put(stats_to_dict(runs[lastSave.run].stats_data),
                               "timestamp", lastSave.now))

\* A save has completed over a record with the Posting group, by a run
\* whose snapshot has the P2P group only.
ReplacedWitness_C10 ==
    /\ lastSave.outcome = "ok"
    /\ lastSave.prior.complete
    /\ "posting_bot" \in DOMAIN lastSave.prior.d
    /\ runs[lastSave.run].stats_data.p2p_bot.k = "block"
    /\ runs[lastSave.run].stats_data.posting_bot = NoBlock
    /\ "posting_bot" \notin DOMAIN storeFile.d

\* The runs whose fetch_statistics call is in the executor.
Extracting == {r \in Runs : runs[r].pc = "fetching"}

\* C11: at most one extraction run (a fetch_statistics call with its
\* browser session) is in flight at any time, whatever triggered the runs.
OneExtractionInFlight_C11 == Cardinality(Extracting) <= 1

\* The text messages (report, error report, error notification) among
\* the messages a run sent.
TextMessages(r) ==
    {i \in 1..Len(runs[r].sent) : runs[r].sent[i].kind # "media"}

\* C12: no run sends a second text message, on no path (also not when
\* sending the chart batch fails after the report text was sent).
NoSecondText_C12 ==
    \A r \in Runs : Cardinality(TextMessages(r)) <= 1

\* A run whose sends all get through sends one text message.
DeliveredRunOneText ==
    \A r \in Runs :
        (runs[r].pc = "done" /\ runs[r].exc = "")
            => Cardinality(TextMessages(r)) = 1

\* The runs for which format_stats_message has returned.
Rendered == {r \in Runs : runs[r].text # <<>>}

\* C13: the output of format_stats_message ends with the marker line
\* '#Report' after two empty lines: for an error snapshot, for a snapshot
\* without groups and for a snapshot with groups, with or without deltas.
TrailingMarker_C13 ==
    \A r \in Rendered :
        LET text == runs[r].text
            n == Len(text)
        IN  /\ n >= 4
            /\ text[n] = ReportMarker
            /\ text[n - 1] = Blank /\ text[n - 2] = Blank
            /\ \A i \in 1..(n - 1) : text[i].t # "marker"

\* One run rendered an error snapshot, the other a snapshot with groups
\* and a delta.
MarkerWitness_C13 ==
    \E r, q \in Rendered :
        /\ runs[r].text[1].t = "error"
        /\ runs[q].text[1].t = "header"
        /\ \E i \in 1..Len(runs[q].text) : runs[q].text[i].diff # <<>>

\* A run rendered a snapshot without groups.
NoDataRendered ==
    \E r \in Rendered : runs[r].text[1].t = "nodata"

(***************************************************************************)
(* SpecLogin: login on every browser behaviour.                            *)
(***************************************************************************)
Locations ==
    { <<"/", "S", "t", "a", "t", "i", "s", "t", "i", "c">>,
      <<"/", "l", "o", "g", "i", "n">>,
      <<"/", "A", "c", "c", "o", "u", "n", "t", "/", "L", "o", "g", "i", "n",
        "?", "r">>,
      <<"/", "L", "O", "G", "I", "N">>,
      <<"/", "l", "o", "g", "o", "u", "t">>,
      <<>> }

LocationReads == {NoLocation} \cup {Location(u) : u \in Locations}

Browsers ==
    [get : {"ok", "raise"}, url1 : LocationReads,
     find_login : {"found", "timeout", "raise"},
     find_password : {"found", "no_such", "raise"},
     typed : 0..Len(TypingOps),
     find_submit : {"found", "no_such", "raise"},
     click : {"ok", "raise"}, submit : {"ok", "raise"},
     url2 : LocationReads]

InitLogin ==
    /\ loginEnv \in Browsers
    /\ loginOut = LoginPending
    /\ IdleDiff
    /\ IdleGetDiffs
    /\ IdleParse
    /\ IdleRuns
    /\ IdleCharts

Login ==
    /\ loginOut = LoginPending
    /\ loginOut' = login(loginEnv)
    /\ UNCHANGED <<loginEnv, diffVars, getDiffsVars, parseVars, runVars,
                   chartVars>>

NextLogin == Login

SpecLogin == InitLogin /\ [][NextLogin]_vars

\* The location shows the login page: it holds the letters l-o-g-i-n in a
\* row, in either case.
ShowsLoginPage(url) ==
    \E i \in 1..(Len(url) - 4) :
        \A j \in 1..5 : StrLower(url[i + j - 1]) = LoginMarker[j]

Issued(op) == \E i \in 1..Len(loginOut.ops) : loginOut.ops[i] = op

\* The location read right after the navigation is not the login page.
AlreadyAuthenticated ==
    /\ loginEnv.get = "ok"
    /\ loginEnv.url1.k = "url"
    /\ ~ShowsLoginPage(loginEnv.url1.text)

\* The login page came up, both fields were found and filled, the form was
\* submitted, and the location read after the delay is not the login page.
SubmittedAndVerified ==
    /\ loginEnv.get = "ok"
    /\ loginEnv.url1.k = "url" /\ ShowsLoginPage(loginEnv.url1.text)
    /\ loginEnv.find_login = "found" /\ loginEnv.find_password = "found"
    /\ loginEnv.typed = Len(TypingOps)
    /\ \/ loginEnv.find_submit = "found" /\ loginEnv.click = "ok"
       \/ loginEnv.find_submit = "no_such" /\ loginEnv.submit = "ok"
    /\ loginEnv.url2.k = "url" /\ ~ShowsLoginPage(loginEnv.url2.text)

\* C14: login returns True in exactly two situations, already
\* authenticated (and then it locates, fills and submits nothing) or
\* submitted and verified; in every other outcome, an exception of any
\* browser operation included, it returns False; it never raises.
LoginSuccessExactly_C14 ==
    loginOut.k # "pending" =>
        /\ loginOut.k = "return"
        /\ loginOut.ret <=> (AlreadyAuthenticated \/ SubmittedAndVerified)
        /\ AlreadyAuthenticated => loginOut.ops = <<"get", "current_url">>
        /\ (loginOut.ret /\ ~AlreadyAuthenticated)
              => (Issued("click") \/ Issued("submit"))

\* login returned True after submitting on a login page whose location
\* spells the marker with a capital.
LoginWitness_C14 ==
    /\ loginOut.k = "return" /\ loginOut.ret
    /\ SubmittedAndVerified
    /\ ~HasLoginMarkerExact(loginEnv.url1.text)

NoPasswordFieldReached ==
    /\ loginOut.k = "return"
    /\ Issued("find:password") /\ loginEnv.find_password = "no_such"

\* The top-level cards of the page that are classified as P2P and have a
\* body, in page order.
P2PCardsOf(page) ==
    SelectSeq(page, LAMBDA card : card.has_header /\ "P2P" \in card.header
                                   /\ card.has_body)

\* The pairs one extraction method yields on the P2P cards of the page.
RECURSIVE InfoPairs(_)
InfoPairs(cards) ==
    IF cards = <<>> THEN EmptyDict
    ELSE AddPairs(EmptyDict, Head(cards).info_items) @@ InfoPairs(Tail(cards))

RECURSIVE FlexPairs(_)
FlexPairs(cards) ==
    IF cards = <<>> THEN EmptyDict
    ELSE AddPairs(EmptyDict, AllFlex(Head(cards))) @@ FlexPairs(Tail(cards))

\* The metrics parse_statistics collected for the P2P group.
P2PMetrics ==
    IF parsed.stats_data.p2p_bot.k = "block"
    THEN parsed.stats_data.p2p_bot.metrics ELSE EmptyDict

\* The group's labels are those of one method: the info-item labels when
\* there is an info-item pair, else the d-flex labels.
OneMethod(cards) ==
    IF DOMAIN InfoPairs(cards) # {}
    THEN DOMAIN P2PMetrics = DOMAIN InfoPairs(cards)
    ELSE DOMAIN P2PMetrics = DOMAIN FlexPairs(cards)

\* C16: for every page the P2P group's metrics come from exactly one
\* extraction method, also when several top-level cards are P2P cards.
P2PSingleMethod_C16 ==
    (parsed.k = "return" /\ parsed.stats_data.error = NoError)
        => OneMethod(P2PCardsOf(html))

\* The same for the pages with at most one P2P card.
P2PSingleMethodOneCard ==
    (parsed.k = "return" /\ parsed.stats_data.error = NoError
        /\ Len(P2PCardsOf(html)) <= 1)
        => /\ OneMethod(P2PCardsOf(html))
           /\ P2PMetrics = IF DOMAIN InfoPairs(P2PCardsOf(html)) # {}
                           THEN InfoPairs(P2PCardsOf(html))
                           ELSE FlexPairs(P2PCardsOf(html))

\* The P2P group holds a label only the info-item method yields next to a
\* label only the d-flex method yields.
MethodsMerged ==
    /\ parsed.k = "return" /\ parsed.stats_data.error = NoError
    /\ LET info == DOMAIN InfoPairs(P2PCardsOf(html))
           flex == DOMAIN FlexPairs(P2PCardsOf(html))
       IN  /\ \E key \in DOMAIN P2PMetrics : key \in info \ flex
           /\ \E key \in DOMAIN P2PMetrics : key \in flex \ info

\* The top-level cards of the page that are parsed as Posting cards.
PostingCardsOf(page) ==
    SelectSeq(page, LAMBDA card : card.has_header /\ "P2P" \notin card.header
                                   /\ "Posting" \in card.header
                                   /\ card.has_body)

\* The sub-cards the extractor recognises in a Posting card: the first div
\* a class name of which contains 'border-primary', and the first with
\* 'border-info'.
Recognised(card) ==
    FirstMatch(card.subdivs, IsPostsCard)
    \o FirstMatch(card.subdivs, IsStoriesCard)

\* The label/value pairs of a sequence of d-flex divs.
PairsOf(items) ==
    {<<items[i].key, items[i].value>> : i \in {j \in 1..Len(items) : items[j].ok}}

\* The pairs of the d-flex divs nested in recognised sub-cards, and of those
\* outside them, over the Posting cards of the page.
NestedPairs(page) ==
    UNION {PairsOf(SubFlex(Recognised(PostingCardsOf(page)[c])))
              : c \in 1..Len(PostingCardsOf(page))}

DirectPairs(page) ==
    UNION {PairsOf(PostingCardsOf(page)[c].flex_items)
              : c \in 1..Len(PostingCardsOf(page))}

PostingMetrics ==
    IF parsed.stats_data.posting_bot.k = "block"
    THEN parsed.stats_data.posting_bot.metrics ELSE EmptyDict

\* C17: no pair of a d-flex div nested in a recognised Posts or Stories
\* sub-card is among the Posting group's direct metrics, whatever class
\* names the sub-card carries besides.
NestedPairsExcluded_C17 ==
    (parsed.k = "return" /\ parsed.stats_data.error = NoError)
        => \A pair \in NestedPairs(html) \ DirectPairs(html) :
              ~ /\ pair[1] \in DOMAIN PostingMetrics
                /\ PostingMetrics[pair[1]] = pair[2]

\* The same for the pages whose recognised sub-cards have the class
\* attribute "card border-primary" or "card border-info" and no other.
NestedPairsExcludedExactClass ==
    (parsed.k = "return" /\ parsed.stats_data.error = NoError
        /\ \A c \in 1..Len(PostingCardsOf(html)) :
              \A i \in 1..Len(Recognised(PostingCardsOf(html)[c])) :
                 Recognised(PostingCardsOf(html)[c])[i].cls
                     \in {<<"card", "border-primary">>, <<"card", "border-info">>})
        => \A pair \in NestedPairs(html) \ DirectPairs(html) :
              ~ /\ pair[1] \in DOMAIN PostingMetrics
                /\ PostingMetrics[pair[1]] = pair[2]

(***************************************************************************)
(* SpecCharts: generate_charts on snapshots whose Posting group has every  *)
(* combination of a missing, empty, one-entry and two-entry Posts subgroup *)
(* and a missing, empty and one-entry Stories subgroup.  The value texts   *)
(* are finite: zero, a number below the epsilon, a number above it, a      *)
(* negative number, and texts without a number or read as nan.             *)
(***************************************************************************)
T0 == <<"0">>
T005 == <<"0", ",", "0", "5">>
TMinus7 == <<"-", "7">>

ChartValues == {T0, T005, T100, TMinus7, TNoNumber, TNaN}

\* What subsections may hold for one subgroup: nothing (the key is not in
\* the dict), an empty dict, or a dict of entries.
PostsGroups ==
    {EmptyDict}
    \cup {"Posty" :> group :
             group \in {EmptyDict}
                 \cup {"Opublikovano" :> v : v \in ChartValues}
                 \cup {("Opublikovano" :> v) @@ ("Oshibok" :> w) :
                          v \in ChartValues, w \in ChartValues}}

StoriesGroups ==
    {EmptyDict}
    \cup {"Storis" :> group :
             group \in {EmptyDict}
                 \cup {"Opublikovano" :> v : v \in {T0, T100, TNoNumber}}}

ChartSnapshots ==
    {StatsData}
    \cup {[StatsData EXCEPT !.posting_bot =
              [StatsBlock("Doxposting") EXCEPT !.subsections =
                  posts @@ stories]]
             : posts \in PostsGroups, stories \in StoriesGroups}

InitCharts ==
    /\ chartData \in ChartSnapshots
    /\ charts = ChartsNotDrawn
    /\ IdleDiff
    /\ IdleGetDiffs
    /\ IdleParse
    /\ IdleRuns
    /\ IdleLogin

GenerateCharts ==
    /\ charts = ChartsNotDrawn
    /\ charts' = [k |-> "return", titles |-> generate_charts(chartData),
                  posting |-> PostingImage(chartData)]
    /\ UNCHANGED <<chartData, diffVars, getDiffsVars, parseVars, runVars,
                   loginVars>>

NextCharts == GenerateCharts

SpecCharts == InitCharts /\ [][NextCharts]_vars

\* The subgroup of the snapshot drawn, empty when it is missing.
Subgroup(name) == Get(chartData.posting_bot.subsections, name)

\* Its entries whose value parses and is not negative.
Eligible(name) ==
    {key \in DOMAIN Subgroup(name) :
        LET num == parse_number(Subgroup(name)[key])
        IN  num.k = "fin" /\ num.v >= 0}

ImageProduced == charts.k = "return" /\ charts.posting.k = "image"

\* What a sub-chart has to show when only an exact zero is raised.
ZeroRaised(name, sub_chart) ==
    IF Eligible(name) = {} THEN sub_chart.kind = "placeholder"
    ELSE /\ sub_chart.kind = "pie"
         /\ DOMAIN sub_chart.values = Eligible(name)
         /\ \A key \in Eligible(name) :
               LET num == parse_number(Subgroup(name)[key])
               IN  sub_chart.values[key] = IF num.v = 0 THEN Epsilon ELSE num

\* C18: in the combined Posting image each sub-chart plots exactly the
\* entries of its subgroup whose value parses and is not negative, an exact
\* zero raised to the epsilon and every other value unchanged; a sub-chart
\* without such entries (subgroup missing, empty, or nothing eligible)
\* shows the 'no data' placeholder.
SubChartsPlotEligible_C18 ==
    ImageProduced
        => /\ ZeroRaised("Posty", charts.posting.posts)
           /\ ZeroRaised("Storis", charts.posting.stories)

\* What the sub-charts do show: the eligible entries, every value below the
\* epsilon raised to it; the placeholder for a subgroup that has entries
\* none of which is eligible; bare axes for a missing or empty subgroup.
BelowEpsilonRaised(name, sub_chart) ==
    IF DOMAIN Subgroup(name) = {} THEN sub_chart = BlankAxes
    ELSE IF Eligible(name) = {} THEN sub_chart = Placeholder
    ELSE /\ sub_chart.kind = "pie"
         /\ DOMAIN sub_chart.values = Eligible(name)
         /\ \A key \in Eligible(name) :
               LET num == parse_number(Subgroup(name)[key])
               IN  sub_chart.values[key]
                       = IF num.v < Epsilon.v THEN Epsilon ELSE num

SubChartsAsDrawn ==
    ImageProduced
        => /\ BelowEpsilonRaised("Posty", charts.posting.posts)
           /\ BelowEpsilonRaised("Storis", charts.posting.stories)

\* A value between zero and the epsilon is plotted as the epsilon.
SmallValueRaised ==
    /\ ImageProduced
    /\ Subgroup("Posty") = ("Opublikovano" :> T005)
    /\ charts.posting.posts = Pie("Opublikovano" :> Epsilon)

\* A missing Posts subgroup leaves bare axes next to a Stories pie.
MissingSubgroupBlank ==
    /\ ImageProduced
    /\ "Posty" \notin DOMAIN chartData.posting_bot.subsections
    /\ charts.posting.posts = BlankAxes
    /\ charts.posting.stories.kind = "pie"

(***************************************************************************)
(* fetch_statistics and the browser it starts (SpecParse).                 *)
(***************************************************************************)
\* The positions of the driver.quit() calls among the calls on the driver.
QuitCalls == {i \in 1..Len(fetched.ops) : fetched.ops[i] = "quit"}

\* A browser was started during the call.
DriverCreated == \E i \in 1..Len(fetched.ops) : fetched.ops[i] = "Chrome"

\* The snapshot the try block returns, whatever quit does afterwards.
BodySnapshot ==
    IF fetchInput.create # NoFailure
    THEN [StatsData EXCEPT !.error = fetchInput.create.str]
    ELSE IF ~fetchInput.login_ok
    THEN [StatsData EXCEPT !.error = "Login failed"]
    ELSE parse_statistics(html, fetchInput.fail)

\* C19: whenever fetch_statistics has started a browser, it has quit the
\* driver exactly once when it returns, with no call on the driver after
\* the quit, and a failing quit neither escapes nor changes the snapshot
\* returned.
DriverQuitOnce_C19 ==
    (fetched # FetchPending /\ DriverCreated)
        => /\ fetched.k = "return"
           /\ Cardinality(QuitCalls) = 1
           /\ fetched.quits = 1
           /\ QuitCalls = {Len(fetched.ops)}
           /\ fetched.stats_data = BodySnapshot

\* The same for the calls in which create_driver returned the driver.
DriverQuitOnceAfterCreateReturned ==
    (fetched # FetchPending /\ fetchInput.create = NoFailure)
        => /\ DriverCreated
           /\ fetched.k = "return"
           /\ Cardinality(QuitCalls) = 1
           /\ fetched.quits = 1
           /\ QuitCalls = {Len(fetched.ops)}
           /\ fetched.stats_data = BodySnapshot

\* A browser that was started and never quit: set_page_load_timeout failed.
DriverLeft ==
    /\ fetched.k = "return"
    /\ DriverCreated
    /\ QuitCalls = {}
    /\ fetched.stats_data.error = "Message: chrome not reachable"

\* quit raised after a successful parse: the snapshot is returned all the same.
QuitFailureDropped ==
    /\ fetched.k = "return"
    /\ ~fetchInput.quit_ok
    /\ fetchInput.create = NoFailure /\ fetchInput.login_ok
    /\ fetchInput.fail = NoFailure
    /\ fetched.stats_data.error = NoError
    /\ fetched.stats_data.p2p_bot.k = "block"
    /\ QuitCalls = {Len(fetched.ops)}

=============================================================================
